---- MODULE Spec2Model ----
(***************************************************************************)
(* Client side of the netlogon secure channel (schannel) establishment of  *)
(* source4/librpc/rpc/dcerpc_schannel.c.                                   *)
(*                                                                         *)
(* Two nested composite requests are modelled:                             *)
(*   - the schannel key request (struct schannel_key_state): endpoint map, *)
(*     secondary connection, unauthenticated bind, ServerReqChallenge,     *)
(*     ServerAuthenticate2, with one downgrade retry;                      *)
(*   - the auth schannel request (struct auth_schannel_state): the         *)
(*     authenticated bind, LogonGetCapabilities level 1 and 2 and the      *)
(*     LogonControl probe.                                                 *)
(* Every continuation (callback) is one action.  composite_done and        *)
(* composite_error of the key request call continue_schannel_key in the    *)
(* same step, as the composite code does.                                  *)
(*                                                                         *)
(* Negotiate flags are uint32 bit masks in the code; here a mask is the    *)
(* set of the names of its bits: & is \cap, | is \cup, &= ~m is \ m.       *)
(* Memory allocation is assumed to succeed (no composite_nomem branch).    *)
(***************************************************************************)
EXTENDS Integers, Sequences, FiniteSets, TLC

(* ---- bounds ---- *)

\* number of distinct values generate_random_buffer can produce
NumChallenges == 2

(* ---- negotiate flag bits (librpc/idl/netlogon.idl) ---- *)

NETLOGON_NEG_ARCFOUR == {"ARCFOUR"}
NETLOGON_NEG_STRONG_KEYS == {"STRONG_KEYS"}
NETLOGON_NEG_PASSWORD_SET2 == {"PASSWORD_SET2"}
NETLOGON_NEG_RODC_PASSTHROUGH == {"RODC_PASSTHROUGH"}
NETLOGON_NEG_SUPPORTS_AES == {"SUPPORTS_AES"}
NETLOGON_NEG_AUTHENTICATED_RPC == {"AUTHENTICATED_RPC"}

\* 0x000701ff: arcfour, password_set2 and further low bits (which behave
\* like password_set2 and are left out); no strong keys, no authenticated rpc
NETLOGON_NEG_AUTH2_FLAGS == {"ARCFOUR", "PASSWORD_SET2"}

\* 0x600fffff: the above plus strong keys and authenticated rpc
NETLOGON_NEG_AUTH2_ADS_FLAGS ==
    {"ARCFOUR", "PASSWORD_SET2", "STRONG_KEYS", "AUTHENTICATED_RPC"}

\* every bit of the model; a mask is a subset
FlagBits ==
    {"ARCFOUR", "STRONG_KEYS", "PASSWORD_SET2", "RODC_PASSTHROUGH",
     "SUPPORTS_AES", "AUTHENTICATED_RPC"}

FlagSets == SUBSET FlagBits

(* ---- inputs ---- *)

ConnFlagBits == {"DCERPC_SCHANNEL_128", "DCERPC_SCHANNEL_AES", "DCERPC_SCHANNEL_AUTO"}

SchannelTypes == {"SEC_CHAN_WKSTA", "SEC_CHAN_RODC"}

Tables == {"netlogon", "other"}

\* values of the client challenge
Challenges == 1..NumChallenges

\* the server challenge is opaque to the client: one symbolic value
ServerChallenges == {"server_challenge"}

\* the flag sets a capability answer is drawn from: the expected set, every
\* set that differs from it in one bit, no bit and every bit
NearFlagSets(f) ==
    {f} \cup {f \ {b} : b \in FlagBits} \cup {f \cup {b} : b \in FlagBits}
        \cup {{}, FlagBits}

(* ---- status codes ---- *)

\* failures of the rpc layer (c->status of a *_recv call)
TransportErrors == {"NT_STATUS_IO_TIMEOUT", "NT_STATUS_CONNECTION_DISCONNECTED"}

\* application level results of netr_ServerAuthenticate2
Auth2Results == {"NT_STATUS_OK", "NT_STATUS_ACCESS_DENIED", "NT_STATUS_NO_TRUST_SAM_ACCOUNT"}

(* ---- netlogon_creds_CredentialState ---- *)

\* s->creds before netlogon_creds_client_init (talloc_zero)
NoCreds ==
    [valid |-> FALSE, client_challenge |-> 0, server_challenge |-> "",
     key_flags |-> {}, client_requested_flags |-> {}, negotiate_flags |-> {},
     sequence |-> 0]

\* the session key is a function of the two challenges, the machine password
\* and the negotiate flags handed in (they select the key derivation)
netlogon_creds_client_init(c1, c2, requested, local) ==
    [valid |-> TRUE, client_challenge |-> c1, server_challenge |-> c2,
     key_flags |-> local, client_requested_flags |-> requested,
     negotiate_flags |-> local, sequence |-> 0]

\* netlogon_creds_client_authenticator steps the credential chain
netlogon_creds_client_authenticator(creds) ==
    [creds EXCEPT !.sequence = @ + 1]

(* ---- dcerpc_schannel_key_send: the negotiation policy ---- *)

Has(flags, mask) == (flags \cap mask) # {}

\* variant: the AES connection flag does not reject servers without AES
reject_md5_servers_of_aes_ignored(conn, lp_reject_md5, lp_weak_crypto_disallowed) ==
    LET r0 == FALSE
        r2 == IF "DCERPC_SCHANNEL_AUTO" \in conn THEN lp_reject_md5 ELSE r0
    IN  IF lp_weak_crypto_disallowed THEN TRUE ELSE r2

\* reject_md5_servers after the connection flags and the configuration
reject_md5_servers_of(conn, lp_reject_md5, lp_weak_crypto_disallowed) ==
    LET r0 == FALSE
        r1 == IF "DCERPC_SCHANNEL_AES" \in conn THEN TRUE ELSE r0
        r2 == IF "DCERPC_SCHANNEL_AUTO" \in conn THEN lp_reject_md5 ELSE r1
    IN  IF lp_weak_crypto_disallowed THEN TRUE ELSE r2

\* require_strong_key after the connection flags and the configuration
require_strong_key_of(conn, lp_require_strong, reject_md5) ==
    LET k0 == FALSE
        k1 == IF "DCERPC_SCHANNEL_128" \in conn THEN TRUE ELSE k0
        k2 == IF "DCERPC_SCHANNEL_AUTO" \in conn THEN lp_require_strong ELSE k1
    IN  IF reject_md5 THEN TRUE ELSE k2

\* s->local_negotiate_flags before the required flags are merged in
local_baseline(conn) ==
    LET l0 == NETLOGON_NEG_AUTH2_FLAGS
        l1 == IF "DCERPC_SCHANNEL_128" \in conn THEN NETLOGON_NEG_AUTH2_ADS_FLAGS ELSE l0
        l2 == IF "DCERPC_SCHANNEL_AES" \in conn THEN NETLOGON_NEG_AUTH2_ADS_FLAGS ELSE l1
    IN  IF "DCERPC_SCHANNEL_AUTO" \in conn
        THEN NETLOGON_NEG_AUTH2_ADS_FLAGS \cup NETLOGON_NEG_SUPPORTS_AES
        ELSE l2

\* s->required_negotiate_flags as merged into the local flags
required_before_supersede(require_strong_key, reject_md5_servers) ==
    LET q0 == NETLOGON_NEG_AUTHENTICATED_RPC
        q1 == IF require_strong_key
              THEN q0 \cup NETLOGON_NEG_ARCFOUR \cup NETLOGON_NEG_STRONG_KEYS
              ELSE q0
    IN  IF reject_md5_servers
        THEN q1 \cup NETLOGON_NEG_PASSWORD_SET2 \cup NETLOGON_NEG_SUPPORTS_AES
        ELSE q1

\* variant: a required AES bit leaves the other required bits in place
required_final_kept(rq) == rq

\* a required AES bit supersedes the arcfour and strong key requirement
required_final(rq) ==
    IF Has(rq, NETLOGON_NEG_SUPPORTS_AES)
    THEN (rq \ NETLOGON_NEG_ARCFOUR) \ NETLOGON_NEG_STRONG_KEYS
    ELSE rq

\* variant: the required flags are not merged into the local flags
dcerpc_schannel_key_send_not_merged(conn, lp_reject_md5, lp_require_strong, lp_weak, schannel_type) ==
    LET reject_md5 == reject_md5_servers_of(conn, lp_reject_md5, lp_weak)
        strong == require_strong_key_of(conn, lp_require_strong, reject_md5)
        rq == required_before_supersede(strong, reject_md5)
        l1 == local_baseline(conn)
        l2 == IF schannel_type = "SEC_CHAN_RODC"
              THEN l1 \cup NETLOGON_NEG_RODC_PASSTHROUGH
              ELSE l1
    IN  [dcerpc_schannel_auto |-> "DCERPC_SCHANNEL_AUTO" \in conn,
         reject_md5_servers |-> reject_md5,
         require_strong_key |-> strong,
         required_negotiate_flags |-> required_final(rq),
         local_negotiate_flags |-> l2,
         requested_negotiate_flags |-> l2]

\* variant: the retry switch is on for every connection
dcerpc_schannel_key_send_auto_always(conn, lp_reject_md5, lp_require_strong, lp_weak, schannel_type) ==
    LET reject_md5 == reject_md5_servers_of(conn, lp_reject_md5, lp_weak)
        strong == require_strong_key_of(conn, lp_require_strong, reject_md5)
        rq == required_before_supersede(strong, reject_md5)
        l1 == local_baseline(conn) \cup rq
        l2 == IF schannel_type = "SEC_CHAN_RODC"
              THEN l1 \cup NETLOGON_NEG_RODC_PASSTHROUGH
              ELSE l1
    IN  [dcerpc_schannel_auto |-> TRUE,
         reject_md5_servers |-> reject_md5,
         require_strong_key |-> strong,
         required_negotiate_flags |-> required_final(rq),
         local_negotiate_flags |-> l2,
         requested_negotiate_flags |-> l2]

\* the fields of schannel_key_state that dcerpc_schannel_key_send sets
dcerpc_schannel_key_send(conn, lp_reject_md5, lp_require_strong, lp_weak, schannel_type) ==
    LET reject_md5 == reject_md5_servers_of(conn, lp_reject_md5, lp_weak)
        strong == require_strong_key_of(conn, lp_require_strong, reject_md5)
        rq == required_before_supersede(strong, reject_md5)
        l1 == local_baseline(conn) \cup rq
        l2 == IF schannel_type = "SEC_CHAN_RODC"
              THEN l1 \cup NETLOGON_NEG_RODC_PASSTHROUGH
              ELSE l1
    IN  [dcerpc_schannel_auto |-> "DCERPC_SCHANNEL_AUTO" \in conn,
         reject_md5_servers |-> reject_md5,
         require_strong_key |-> strong,
         required_negotiate_flags |-> required_final(rq),
         local_negotiate_flags |-> l2,
         requested_negotiate_flags |-> l2]

(* ---- continue_srv_auth2: the decisions on the authenticate response ---- *)

\* variant: the arcfour and strong key requirement is dropped unconditionally
required_after_aes_always(rqf, rf, lf) ==
    (rqf \ NETLOGON_NEG_ARCFOUR) \ NETLOGON_NEG_STRONG_KEYS

\* variant: no supersession at all
required_after_aes_never(rqf, rf, lf) == rqf

\* variant: AES on one side is enough to supersede
required_after_aes_either(rqf, rf, lf) ==
    IF Has(rf, NETLOGON_NEG_SUPPORTS_AES) \/ Has(lf, NETLOGON_NEG_SUPPORTS_AES)
    THEN (rqf \ NETLOGON_NEG_ARCFOUR) \ NETLOGON_NEG_STRONG_KEYS
    ELSE rqf

\* the required flags as compared: AES on both sides supersedes the
\* arcfour and strong key requirement
required_after_aes(rqf, rf, lf) ==
    IF Has(rf, NETLOGON_NEG_SUPPORTS_AES) /\ Has(lf, NETLOGON_NEG_SUPPORTS_AES)
    THEN (rqf \ NETLOGON_NEG_ARCFOUR) \ NETLOGON_NEG_STRONG_KEYS
    ELSE rqf

\* variant: (rqf & rf) == 0, one surviving required bit is accepted
required_flags_missing_all(rqf, rf, lf) ==
    (required_after_aes(rqf, rf, lf) \cap rf) = {}

\* (rqf & rf) != rqf: the response is a downgrade
required_flags_missing(rqf, rf, lf) ==
    (required_after_aes(rqf, rf, lf) \cap rf) # required_after_aes(rqf, rf, lf)

\* variant: the retry switch is not consulted
retry_allowed_ignores_auto(auto, lf, rf) ==
    (lf \cap rf) # lf

\* variant: every denial may be retried
retry_allowed_always(auto, lf, rf) == TRUE

\* s->dcerpc_schannel_auto after "without a change in flags there's no need
\* to retry": whether the denied attempt may be retried
retry_allowed(auto, lf, rf) ==
    IF (lf \cap rf) = lf THEN FALSE ELSE auto

\* variant: only a response with AES and strong keys counts as unchanged
crypto_unchanged_both(lf, rf) ==
    Has(rf, NETLOGON_NEG_SUPPORTS_AES) /\ Has(rf, NETLOGON_NEG_STRONG_KEYS)

\* variant: the returned key types are not looked at
crypto_unchanged_never(lf, rf) == FALSE

\* variant: strong keys are looked at before AES
crypto_unchanged_strong_first(lf, rf) ==
    IF Has(lf, NETLOGON_NEG_STRONG_KEYS)
    THEN Has(rf, NETLOGON_NEG_STRONG_KEYS)
    ELSE IF Has(lf, NETLOGON_NEG_SUPPORTS_AES)
         THEN Has(rf, NETLOGON_NEG_SUPPORTS_AES)
         ELSE FALSE

\* the strongest key type offered is also in the response: nothing to downgrade
crypto_unchanged(lf, rf) ==
    IF Has(lf, NETLOGON_NEG_SUPPORTS_AES)
    THEN Has(rf, NETLOGON_NEG_SUPPORTS_AES)
    ELSE IF Has(lf, NETLOGON_NEG_STRONG_KEYS)
         THEN Has(rf, NETLOGON_NEG_STRONG_KEYS)
         ELSE FALSE

\* variant: the local flags become the peer's flags
narrow_local_remote(lf, rf) == rf

\* variant: the local flags are kept as offered
narrow_local_kept(lf, rf) == lf

\* s->local_negotiate_flags &= s->remote_negotiate_flags
narrow_local(lf, rf) == lf \cap rf

\* variant: the peer's flags are stored as they came
final_negotiate_flags_remote(cf, rf) == rf

\* the flags stored in the credentials when the attempt was not downgraded
final_negotiate_flags(cf, rf) == cf \cap rf

\* variant: after a retry only bits missing from the response count
second_downgrade_missing_only(requested, lf, rf) ==
    requested # lf /\ (lf \cap rf) # lf

\* "we downgraded our crypto once, we should not allow any additional downgrade"
second_downgrade(requested, lf, rf) ==
    requested # lf /\ lf # rf

(* ---- state ---- *)

VARIABLES
    pc,                         \* the request in flight, or "done" / "failed"
    status,                     \* c->status of the auth schannel request
    conn_flags,                 \* s->pipe->conn->flags (schannel bits)
    schannel_type,              \* secure channel type of the credentials
    table,                      \* s->table: the interface being bound
    reject_md5_servers,         \* locals of dcerpc_schannel_key_send, as they
    require_strong_key,         \* stood when the required flags were built
    dcerpc_schannel_auto,       \* schannel_key_state
    creds,
    requested_negotiate_flags,
    required_negotiate_flags,
    local_negotiate_flags,
    remote_negotiate_flags,
    credentials1,               \* client challenge
    credentials2,               \* server challenge
    a_in_negotiate_flags,       \* *s->a.in.negotiate_flags as the request carried it
    a_result,                   \* s->a.out.result
    auth_requested_negotiate_flags,  \* auth_schannel_state
    creds_state,
    save_creds_state,
    capabilities,               \* s->capabilities.server_capabilities
    client_caps,                \* s->client_caps.requested_flags
    c_result,                   \* s->c.out.result
    cli_netlogon_creds,         \* netlogon creds attached to the caller's cli_credentials
    sent,                       \* log of the requests issued
    chal_gen,                   \* number of generate_random_buffer calls on credentials1
    auth2_replies,              \* number of ServerAuthenticate2 responses received
    reply                       \* the response the last continuation received

flag_vars ==
    <<requested_negotiate_flags, required_negotiate_flags, local_negotiate_flags>>

reply_vars == <<remote_negotiate_flags, a_result, auth2_replies>>

chal_vars == <<credentials1, chal_gen>>

key_vars ==
    <<dcerpc_schannel_auto, creds, flag_vars, reply_vars, chal_vars, credentials2, a_in_negotiate_flags>>

caps_vars == <<capabilities, client_caps, c_result>>

auth_vars ==
    <<auth_requested_negotiate_flags, creds_state, save_creds_state, caps_vars>>

input_vars == <<conn_flags, schannel_type, table, reject_md5_servers, require_strong_key>>

vars == <<pc, status, input_vars, key_vars, auth_vars, cli_netlogon_creds, sent, reply>>

\* a response: the status of the call in the rpc layer, the result the peer
\* put in it, whether its return credential verifies; seq counts the responses
Response(call, result, verified, seq) ==
    [call |-> call, result |-> result, verified |-> verified, seq |-> seq]

\* the continuation runs on the response of the request in flight
received(call, result, verified) ==
    reply' = Response(call, result, verified, reply.seq + 1)

\* a request issued on a pipe; gen is the generation of the challenge it carries
Request(op, pipe, gen) == [op |-> op, pipe |-> pipe, gen |-> gen]

(* ---- construction ---- *)

\* dcerpc_bind_auth_schannel_send and dcerpc_schannel_key_send have run:
\* the endpoint mapping request is in flight
Init ==
    \E conn \in SUBSET ConnFlagBits, lp_reject_md5 \in BOOLEAN,
       lp_require_strong \in BOOLEAN, lp_weak \in BOOLEAN,
       sct \in SchannelTypes, tbl \in Tables :
        LET s == dcerpc_schannel_key_send(conn, lp_reject_md5, lp_require_strong, lp_weak, sct)
        IN  /\ pc = "epm_map_binding"
            /\ status = "PENDING"
            /\ conn_flags = conn
            /\ schannel_type = sct
            /\ table = tbl
            /\ reject_md5_servers = s.reject_md5_servers
            /\ require_strong_key = s.require_strong_key
            /\ dcerpc_schannel_auto = s.dcerpc_schannel_auto
            /\ creds = NoCreds
            /\ requested_negotiate_flags = s.requested_negotiate_flags
            /\ required_negotiate_flags = s.required_negotiate_flags
            /\ local_negotiate_flags = s.local_negotiate_flags
            /\ remote_negotiate_flags = {}
            /\ credentials1 = 0
            /\ credentials2 = ""
            /\ a_in_negotiate_flags = {}
            /\ a_result = "NT_STATUS_OK"
            /\ auth_requested_negotiate_flags = {}
            /\ creds_state = NoCreds
            /\ save_creds_state = NoCreds
            /\ capabilities = {}
            /\ client_caps = {}
            /\ c_result = "NT_STATUS_OK"
            /\ cli_netlogon_creds = NoCreds
            /\ sent = <<Request("epm_map_binding", "none", 0)>>
            /\ chal_gen = 0
            /\ auth2_replies = 0
            /\ reply = Response("NONE", "NONE", FALSE, 0)

(* ---- completion of the key request ---- *)

\* variant: the key request reports one status for every failure
key_composite_error_generic(st) ==
    /\ pc' = "failed"
    /\ status' = "NT_STATUS_UNSUCCESSFUL"
    /\ UNCHANGED <<auth_vars, cli_netlogon_creds, sent>>

\* composite_error on the key request: continue_schannel_key receives the
\* status and fails the auth schannel request with it
key_composite_error(st) ==
    /\ pc' = "failed"
    /\ status' = st
    /\ UNCHANGED <<auth_vars, cli_netlogon_creds, sent>>

\* composite_done on the key request: continue_schannel_key takes the
\* credentials, attaches them to the caller's credentials and sends the
\* authenticated bind on the primary pipe
continue_schannel_key(final_creds) ==
    /\ creds_state' = final_creds
    /\ auth_requested_negotiate_flags' = requested_negotiate_flags
    /\ cli_netlogon_creds' = final_creds
    /\ sent' = Append(sent, Request("bind_auth", "primary", 0))
    /\ pc' = "bind_auth"
    /\ UNCHANGED <<status, save_creds_state, caps_vars>>

(* ---- stages 2 to 4 of the key request ---- *)

\* variant: a failed endpoint mapping is requested again
continue_epm_map_binding_again ==
    /\ pc = "epm_map_binding"
    /\ UNCHANGED <<input_vars, key_vars>>
    /\ \/ \E st \in TransportErrors :
            /\ received(st, "NONE", FALSE)
            /\ pc' = "epm_map_binding"
            /\ sent' = Append(sent, Request("epm_map_binding", "none", 0))
            /\ UNCHANGED <<status, auth_vars, cli_netlogon_creds>>
       \/ /\ received("NT_STATUS_OK", "NONE", FALSE)
          /\ pc' = "secondary_connection"
          /\ sent' = Append(sent, Request("secondary_connection", "primary", 0))
          /\ UNCHANGED <<status, auth_vars, cli_netlogon_creds>>

continue_epm_map_binding ==
    /\ pc = "epm_map_binding"
    /\ UNCHANGED <<input_vars, key_vars>>
    /\ \/ \E st \in TransportErrors :
            key_composite_error(st) /\ received(st, "NONE", FALSE)
       \/ /\ received("NT_STATUS_OK", "NONE", FALSE)
          /\ pc' = "secondary_connection"
          /\ sent' = Append(sent, Request("secondary_connection", "primary", 0))
          /\ UNCHANGED <<status, auth_vars, cli_netlogon_creds>>

continue_secondary_connection ==
    /\ pc = "secondary_connection"
    /\ UNCHANGED <<input_vars, key_vars>>
    /\ \/ \E st \in TransportErrors :
            key_composite_error(st) /\ received(st, "NONE", FALSE)
       \/ /\ received("NT_STATUS_OK", "NONE", FALSE)
          /\ pc' = "bind_auth_none"
          /\ sent' = Append(sent, Request("bind_auth_none", "secondary", 0))
          /\ UNCHANGED <<status, auth_vars, cli_netlogon_creds>>

\* variant: the challenge is generated once and kept
generate_random_buffer_once ==
    IF chal_gen = 0
    THEN /\ \E r \in Challenges : credentials1' = r
         /\ chal_gen' = chal_gen + 1
    ELSE UNCHANGED chal_vars

\* generate_random_buffer(s->credentials1.data, ...)
generate_random_buffer ==
    /\ \E r \in Challenges : credentials1' = r
    /\ chal_gen' = chal_gen + 1

\* variant: the challenge request goes out on the primary pipe
ServerReqChallenge_send_primary ==
    /\ sent' = Append(sent, Request("ServerReqChallenge", "primary", chal_gen'))
    /\ pc' = "ServerReqChallenge"
    /\ UNCHANGED <<status, auth_vars, cli_netlogon_creds>>

\* variant: the challenge request is sent two times
ServerReqChallenge_send_twice ==
    /\ sent' = Append(Append(sent, Request("ServerReqChallenge", "secondary", chal_gen')),
                      Request("ServerReqChallenge", "secondary", chal_gen'))
    /\ pc' = "ServerReqChallenge"
    /\ UNCHANGED <<status, auth_vars, cli_netlogon_creds>>

\* dcerpc_netr_ServerReqChallenge_r_send on pipe2, carrying credentials1
ServerReqChallenge_send ==
    /\ sent' = Append(sent, Request("ServerReqChallenge", "secondary", chal_gen'))
    /\ pc' = "ServerReqChallenge"
    /\ UNCHANGED <<status, auth_vars, cli_netlogon_creds>>

continue_bind_auth_none ==
    /\ pc = "bind_auth_none"
    /\ UNCHANGED input_vars
    /\ \/ /\ \E st \in TransportErrors :
               key_composite_error(st) /\ received(st, "NONE", FALSE)
          /\ UNCHANGED key_vars
       \/ /\ received("NT_STATUS_OK", "NONE", FALSE)
          /\ generate_random_buffer
          /\ ServerReqChallenge_send
          /\ UNCHANGED <<dcerpc_schannel_auto, creds, flag_vars, reply_vars, credentials2, a_in_negotiate_flags>>

(* ---- stage 5: the challenge response, ServerAuthenticate2 is sent ---- *)

continue_srv_challenge ==
    /\ pc = "ServerReqChallenge"
    /\ UNCHANGED <<input_vars, dcerpc_schannel_auto, flag_vars, reply_vars, chal_vars>>
    /\ \/ /\ \E st \in TransportErrors :
               key_composite_error(st) /\ received(st, "NONE", FALSE)
          /\ UNCHANGED <<creds, credentials2, a_in_negotiate_flags>>
       \/ \* cli_credentials_get_nt_hash returned NULL
          /\ received("NT_STATUS_OK", "NONE", FALSE)
          /\ \E c2 \in ServerChallenges : credentials2' = c2
          /\ key_composite_error("NT_STATUS_INTERNAL_ERROR")
          /\ UNCHANGED <<creds, a_in_negotiate_flags>>
       \/ /\ received("NT_STATUS_OK", "NONE", FALSE)
          /\ \E c2 \in ServerChallenges : credentials2' = c2
          /\ a_in_negotiate_flags' = requested_negotiate_flags
          /\ creds' = netlogon_creds_client_init(credentials1, credentials2',
                                                 requested_negotiate_flags,
                                                 local_negotiate_flags)
          /\ sent' = Append(sent, Request("ServerAuthenticate2", "secondary", chal_gen))
          /\ pc' = "ServerAuthenticate2"
          /\ UNCHANGED <<status, auth_vars, cli_netlogon_creds>>

(* ---- stage 6: the authenticate response ---- *)

\* the result is neither OK nor access denied, or a downgrade was detected,
\* or the attempt is denied for good: composite_error
srv_auth2_error(st, auto) ==
    /\ key_composite_error(st)
    /\ dcerpc_schannel_auto' = auto
    /\ UNCHANGED <<creds, flag_vars, chal_vars, credentials2, a_in_negotiate_flags>>

\* variant: the retry switch stays on
srv_auth2_retry_stays_auto(rf) ==
    /\ dcerpc_schannel_auto' = dcerpc_schannel_auto
    /\ local_negotiate_flags' = narrow_local(local_negotiate_flags, rf)
    /\ generate_random_buffer
    /\ ServerReqChallenge_send
    /\ UNCHANGED <<creds, requested_negotiate_flags, required_negotiate_flags,
                   credentials2, a_in_negotiate_flags>>

\* variant: the requested flags are narrowed with the local ones
srv_auth2_retry_narrows_requested(rf) ==
    /\ dcerpc_schannel_auto' = FALSE
    /\ local_negotiate_flags' = narrow_local(local_negotiate_flags, rf)
    /\ requested_negotiate_flags' = requested_negotiate_flags \cap rf
    /\ generate_random_buffer
    /\ ServerReqChallenge_send
    /\ UNCHANGED <<creds, required_negotiate_flags, credentials2, a_in_negotiate_flags>>

\* downgrade to the flags returned by the server and retry
srv_auth2_retry(rf) ==
    /\ dcerpc_schannel_auto' = FALSE
    /\ local_negotiate_flags' = narrow_local(local_negotiate_flags, rf)
    /\ generate_random_buffer
    /\ ServerReqChallenge_send
    /\ UNCHANGED <<creds, requested_negotiate_flags, required_negotiate_flags,
                   credentials2, a_in_negotiate_flags>>

\* the access denied branch
srv_auth2_denied(rf) ==
    IF ~retry_allowed(dcerpc_schannel_auto, local_negotiate_flags, rf)
    THEN srv_auth2_error("NT_STATUS_ACCESS_DENIED",
                         retry_allowed(dcerpc_schannel_auto, local_negotiate_flags, rf))
    ELSE IF crypto_unchanged(local_negotiate_flags, rf)
         THEN srv_auth2_error("NT_STATUS_ACCESS_DENIED", FALSE)
         ELSE srv_auth2_retry(rf)

\* variant: after a retry the stored flags are narrowed by the peer's flags too
srv_auth2_ok_narrows_again(rf, verified) ==
    IF ~verified
    THEN srv_auth2_error("NT_STATUS_ACCESS_DENIED", dcerpc_schannel_auto)
    ELSE /\ creds' = [creds EXCEPT
                         !.negotiate_flags = final_negotiate_flags(@, rf)]
         /\ continue_schannel_key(creds')
         /\ UNCHANGED <<dcerpc_schannel_auto, flag_vars, chal_vars, credentials2, a_in_negotiate_flags>>

\* the result is OK: verify the returned credentials and store the flags
srv_auth2_ok(rf, verified) ==
    IF ~verified
    THEN srv_auth2_error("NT_STATUS_ACCESS_DENIED", dcerpc_schannel_auto)
    ELSE IF requested_negotiate_flags = local_negotiate_flags
         THEN /\ creds' = [creds EXCEPT
                              !.negotiate_flags = final_negotiate_flags(@, rf)]
              /\ continue_schannel_key(creds')
              /\ UNCHANGED <<dcerpc_schannel_auto, flag_vars, chal_vars, credentials2, a_in_negotiate_flags>>
         ELSE IF second_downgrade(requested_negotiate_flags, local_negotiate_flags, rf)
              THEN srv_auth2_error("NT_STATUS_DOWNGRADE_DETECTED", dcerpc_schannel_auto)
              ELSE /\ continue_schannel_key(creds)
                   /\ UNCHANGED <<dcerpc_schannel_auto, creds, flag_vars, chal_vars,
                                  credentials2, a_in_negotiate_flags>>

\* variant: the required flags are checked whatever the result is
srv_auth2_received_required_first(res, rf, verified) ==
    /\ received("NT_STATUS_OK", res, verified)
    /\ a_result' = res
    /\ remote_negotiate_flags' = rf
    /\ auth2_replies' = auth2_replies + 1
    /\ IF required_flags_missing(required_negotiate_flags, rf, local_negotiate_flags)
       THEN srv_auth2_error("NT_STATUS_DOWNGRADE_DETECTED", dcerpc_schannel_auto)
       ELSE IF res \notin {"NT_STATUS_ACCESS_DENIED", "NT_STATUS_OK"}
            THEN srv_auth2_error(res, dcerpc_schannel_auto)
            ELSE IF res = "NT_STATUS_ACCESS_DENIED"
                 THEN srv_auth2_denied(rf)
                 ELSE srv_auth2_ok(rf, verified)

\* variant: the denial is handled before the required flags are checked
srv_auth2_received_denial_first(res, rf, verified) ==
    /\ received("NT_STATUS_OK", res, verified)
    /\ a_result' = res
    /\ remote_negotiate_flags' = rf
    /\ auth2_replies' = auth2_replies + 1
    /\ IF res \notin {"NT_STATUS_ACCESS_DENIED", "NT_STATUS_OK"}
       THEN srv_auth2_error(res, dcerpc_schannel_auto)
       ELSE IF res = "NT_STATUS_ACCESS_DENIED"
            THEN srv_auth2_denied(rf)
            ELSE IF required_flags_missing(required_negotiate_flags, rf,
                                           local_negotiate_flags)
                 THEN srv_auth2_error("NT_STATUS_DOWNGRADE_DETECTED",
                                      dcerpc_schannel_auto)
                 ELSE srv_auth2_ok(rf, verified)

\* a response came back: its result and flags are stored, then judged
srv_auth2_received(res, rf, verified) ==
    /\ received("NT_STATUS_OK", res, verified)
    /\ a_result' = res
    /\ remote_negotiate_flags' = rf
    /\ auth2_replies' = auth2_replies + 1
    /\ IF res \notin {"NT_STATUS_ACCESS_DENIED", "NT_STATUS_OK"}
       THEN srv_auth2_error(res, dcerpc_schannel_auto)
       ELSE IF required_flags_missing(required_negotiate_flags, rf, local_negotiate_flags)
            THEN srv_auth2_error("NT_STATUS_DOWNGRADE_DETECTED", dcerpc_schannel_auto)
            ELSE IF res = "NT_STATUS_ACCESS_DENIED"
                 THEN srv_auth2_denied(rf)
                 ELSE srv_auth2_ok(rf, verified)

continue_srv_auth2 ==
    /\ pc = "ServerAuthenticate2"
    /\ UNCHANGED input_vars
    /\ \/ /\ \E st \in TransportErrors :
               key_composite_error(st) /\ received(st, "NONE", FALSE)
          /\ UNCHANGED key_vars
       \/ \E res \in Auth2Results \ {"NT_STATUS_OK"}, rf \in FlagSets :
            srv_auth2_received(res, rf, FALSE)
       \/ \E rf \in FlagSets, verified \in BOOLEAN :
            srv_auth2_received("NT_STATUS_OK", rf, verified)

(* ---- the auth schannel request after the key request ---- *)

\* variant: the status is stored but the request is not put in the error state
composite_error_not_final(st) ==
    /\ pc' = pc
    /\ status' = st
    /\ sent' = sent

\* composite_error on the auth schannel request
composite_error(st) ==
    /\ pc' = "failed"
    /\ status' = st
    /\ sent' = sent

\* composite_done on the auth schannel request
composite_done ==
    /\ pc' = "done"
    /\ status' = "NT_STATUS_OK"
    /\ sent' = sent

\* failures of a LogonGetCapabilities call in the rpc layer
CapsCallErrors ==
    TransportErrors \cup
    {"NT_STATUS_RPC_PROCNUM_OUT_OF_RANGE", "NT_STATUS_RPC_BAD_STUB_DATA",
     "NT_STATUS_RPC_ENUM_VALUE_OUT_OF_RANGE"}

\* application level results of netr_LogonGetCapabilities
CapsResults == {"NT_STATUS_OK", "NT_STATUS_NOT_IMPLEMENTED", "NT_STATUS_INVALID_PARAMETER"}

\* results of the LogonControl probe
ControlResults == {"WERR_OK", "WERR_NOT_SUPPORTED", "WERR_ACCESS_DENIED"}

\* dcerpc_netr_LogonGetCapabilities_r_send with a fresh authenticator
LogonGetCapabilities_send(level, from_creds) ==
    /\ save_creds_state' = netlogon_creds_client_authenticator(from_creds)
    /\ sent' = Append(sent, Request("LogonGetCapabilities", "primary", level))
    /\ pc' = IF level = 1 THEN "LogonGetCapabilities1" ELSE "LogonGetCapabilities2"
    /\ status' = status

\* continue_logon_control_do: the LogonControl probe is sent
continue_logon_control_do ==
    /\ sent' = Append(sent, Request("LogonControl", "primary", 0))
    /\ pc' = "LogonControl"
    /\ status' = status

\* variant: the capabilities are queried on every interface
continue_bind_auth_every_table ==
    /\ pc = "bind_auth"
    /\ UNCHANGED <<input_vars, key_vars, auth_requested_negotiate_flags, creds_state,
                   caps_vars, cli_netlogon_creds>>
    /\ \/ /\ \E st \in TransportErrors :
               composite_error(st) /\ received(st, "NONE", FALSE)
          /\ UNCHANGED save_creds_state
       \/ /\ received("NT_STATUS_OK", "NONE", FALSE)
          /\ LogonGetCapabilities_send(1, creds_state)

\* stage 3: the authenticated bind came back
continue_bind_auth ==
    /\ pc = "bind_auth"
    /\ UNCHANGED <<input_vars, key_vars, auth_requested_negotiate_flags, creds_state,
                   caps_vars, cli_netlogon_creds>>
    /\ \/ /\ \E st \in TransportErrors :
               composite_error(st) /\ received(st, "NONE", FALSE)
          /\ UNCHANGED save_creds_state
       \/ /\ table = "netlogon"
          /\ received("NT_STATUS_OK", "NONE", FALSE)
          /\ LogonGetCapabilities_send(1, creds_state)
       \/ /\ table # "netlogon"
          /\ received("NT_STATUS_OK", "NONE", FALSE)
          /\ composite_done
          /\ UNCHANGED save_creds_state

\* variant: only negotiated AES makes the missing call a downgrade
procnum_is_downgrade_aes_only(negotiate_flags) ==
    Has(negotiate_flags, NETLOGON_NEG_SUPPORTS_AES)

\* negotiated AES or strong keys: a server without LogonGetCapabilities is a downgrade
procnum_is_downgrade(negotiate_flags) ==
    IF Has(negotiate_flags, NETLOGON_NEG_SUPPORTS_AES)
    THEN TRUE
    ELSE Has(negotiate_flags, NETLOGON_NEG_STRONG_KEYS)

\* variant: a matching level 1 answer is always enough
caps1_is_downgrade_mismatch_only(negotiate_flags, server_capabilities, requested) ==
    negotiate_flags # server_capabilities

\* variant: the test of the negotiated AES bit is inverted
caps1_is_downgrade_aes_inverted(negotiate_flags, server_capabilities, requested) ==
    IF negotiate_flags # server_capabilities
    THEN TRUE
    ELSE Has(requested, NETLOGON_NEG_SUPPORTS_AES)
         /\ Has(negotiate_flags, NETLOGON_NEG_SUPPORTS_AES)

\* variant: only bits missing from the level 1 answer count
caps1_is_downgrade_missing_only(negotiate_flags, server_capabilities, requested) ==
    IF ~(negotiate_flags \subseteq server_capabilities)
    THEN TRUE
    ELSE Has(requested, NETLOGON_NEG_SUPPORTS_AES)
         /\ ~Has(negotiate_flags, NETLOGON_NEG_SUPPORTS_AES)

\* the level 1 answer does not confirm what was negotiated
caps1_is_downgrade(negotiate_flags, server_capabilities, requested) ==
    IF negotiate_flags # server_capabilities
    THEN TRUE
    ELSE Has(requested, NETLOGON_NEG_SUPPORTS_AES)
         /\ ~Has(negotiate_flags, NETLOGON_NEG_SUPPORTS_AES)

\* variant: the return credential of the level 2 answer is not checked
get_client_capabilities_received_unverified(res, caps, verified) ==
    /\ received("NT_STATUS_OK", res, verified)
    /\ c_result' = res
    /\ client_caps' = caps
    /\ capabilities' = capabilities
    /\ save_creds_state' = save_creds_state
    /\ IF res # "NT_STATUS_OK"
       THEN composite_error(res) /\ UNCHANGED <<creds_state, cli_netlogon_creds>>
       ELSE IF auth_requested_negotiate_flags # caps
       THEN composite_error("NT_STATUS_DOWNGRADE_DETECTED")
            /\ UNCHANGED <<creds_state, cli_netlogon_creds>>
       ELSE /\ creds_state' = save_creds_state
            /\ cli_netlogon_creds' = creds_state'
            /\ composite_done

\* variant: the level 2 answer may add bits to what was requested
get_client_capabilities_received_superset(res, caps, verified) ==
    /\ received("NT_STATUS_OK", res, verified)
    /\ c_result' = res
    /\ client_caps' = caps
    /\ capabilities' = capabilities
    /\ save_creds_state' = save_creds_state
    /\ IF ~verified
       THEN composite_error("NT_STATUS_ACCESS_DENIED")
            /\ UNCHANGED <<creds_state, cli_netlogon_creds>>
       ELSE IF res # "NT_STATUS_OK"
       THEN composite_error(res) /\ UNCHANGED <<creds_state, cli_netlogon_creds>>
       ELSE IF ~(auth_requested_negotiate_flags \subseteq caps)
       THEN composite_error("NT_STATUS_DOWNGRADE_DETECTED")
            /\ UNCHANGED <<creds_state, cli_netlogon_creds>>
       ELSE /\ creds_state' = save_creds_state
            /\ cli_netlogon_creds' = creds_state'
            /\ composite_done

\* variant: the return credential is checked before the result is looked at
get_negotiated_capabilities_received_verify_first(res, caps, verified) ==
    /\ received("NT_STATUS_OK", res, verified)
    /\ c_result' = res
    /\ capabilities' = caps
    /\ client_caps' = client_caps
    /\ IF ~verified
       THEN /\ composite_error("NT_STATUS_ACCESS_DENIED")
            /\ UNCHANGED <<creds_state, save_creds_state, cli_netlogon_creds>>
       ELSE IF res = "NT_STATUS_NOT_IMPLEMENTED"
       THEN /\ IF Has(creds_state.negotiate_flags, NETLOGON_NEG_SUPPORTS_AES)
               THEN composite_error("NT_STATUS_DOWNGRADE_DETECTED")
               ELSE composite_done
            /\ UNCHANGED <<creds_state, save_creds_state, cli_netlogon_creds>>
       ELSE /\ creds_state' = save_creds_state
            /\ cli_netlogon_creds' = creds_state'
            /\ IF res # "NT_STATUS_OK"
               THEN composite_error(res) /\ UNCHANGED save_creds_state
               ELSE IF caps1_is_downgrade(creds_state'.negotiate_flags, caps,
                                          auth_requested_negotiate_flags)
               THEN composite_error("NT_STATUS_DOWNGRADE_DETECTED")
                    /\ UNCHANGED save_creds_state
               ELSE LogonGetCapabilities_send(2, creds_state')

\* the level 1 response was received by the rpc layer
get_negotiated_capabilities_received(res, caps, verified) ==
    /\ received("NT_STATUS_OK", res, verified)
    /\ c_result' = res
    /\ capabilities' = caps
    /\ client_caps' = client_caps
    /\ IF res = "NT_STATUS_NOT_IMPLEMENTED"
       THEN /\ IF Has(creds_state.negotiate_flags, NETLOGON_NEG_SUPPORTS_AES)
               THEN composite_error("NT_STATUS_DOWNGRADE_DETECTED")
               ELSE composite_done
            /\ UNCHANGED <<creds_state, save_creds_state, cli_netlogon_creds>>
       ELSE IF ~verified
       THEN /\ composite_error("NT_STATUS_ACCESS_DENIED")
            /\ UNCHANGED <<creds_state, save_creds_state, cli_netlogon_creds>>
       ELSE /\ creds_state' = save_creds_state
            /\ cli_netlogon_creds' = creds_state'
            /\ IF res # "NT_STATUS_OK"
               THEN composite_error(res) /\ UNCHANGED save_creds_state
               ELSE IF caps1_is_downgrade(creds_state'.negotiate_flags, caps,
                                          auth_requested_negotiate_flags)
               THEN composite_error("NT_STATUS_DOWNGRADE_DETECTED")
                    /\ UNCHANGED save_creds_state
               ELSE LogonGetCapabilities_send(2, creds_state')

\* stage 4: the level 1 capabilities came back
continue_get_negotiated_capabilities ==
    /\ pc = "LogonGetCapabilities1"
    /\ UNCHANGED <<input_vars, key_vars, auth_requested_negotiate_flags>>
    /\ \/ /\ received("NT_STATUS_RPC_PROCNUM_OUT_OF_RANGE", "NONE", FALSE)
          /\ IF procnum_is_downgrade(creds_state.negotiate_flags)
             THEN composite_error("NT_STATUS_DOWNGRADE_DETECTED")
             ELSE continue_logon_control_do
          /\ UNCHANGED <<creds_state, save_creds_state, caps_vars, cli_netlogon_creds>>
       \/ /\ \E st \in CapsCallErrors \ {"NT_STATUS_RPC_PROCNUM_OUT_OF_RANGE"} :
               composite_error(st) /\ received(st, "NONE", FALSE)
          /\ UNCHANGED <<creds_state, save_creds_state, caps_vars, cli_netlogon_creds>>
       \/ \E res \in CapsResults, verified \in BOOLEAN,
             caps \in NearFlagSets(creds_state.negotiate_flags) :
            get_negotiated_capabilities_received(res, caps, verified)

\* variant: bad stub data is not taken for an out of range enum value
caps2_unsupported_enum_only(st) ==
    st = "NT_STATUS_RPC_ENUM_VALUE_OUT_OF_RANGE"

\* the call failed in a way that an unpatched server produces for level 2
caps2_unsupported(st) ==
    LET st1 == IF st = "NT_STATUS_RPC_BAD_STUB_DATA"
               THEN "NT_STATUS_RPC_ENUM_VALUE_OUT_OF_RANGE"
               ELSE st
    IN  st1 = "NT_STATUS_RPC_ENUM_VALUE_OUT_OF_RANGE"

\* the level 2 response was received by the rpc layer
get_client_capabilities_received(res, caps, verified) ==
    /\ received("NT_STATUS_OK", res, verified)
    /\ c_result' = res
    /\ client_caps' = caps
    /\ capabilities' = capabilities
    /\ save_creds_state' = save_creds_state
    /\ IF ~verified
       THEN composite_error("NT_STATUS_ACCESS_DENIED")
            /\ UNCHANGED <<creds_state, cli_netlogon_creds>>
       ELSE IF res # "NT_STATUS_OK"
       THEN composite_error(res) /\ UNCHANGED <<creds_state, cli_netlogon_creds>>
       ELSE IF auth_requested_negotiate_flags # caps
       THEN composite_error("NT_STATUS_DOWNGRADE_DETECTED")
            /\ UNCHANGED <<creds_state, cli_netlogon_creds>>
       ELSE /\ creds_state' = save_creds_state
            /\ cli_netlogon_creds' = creds_state'
            /\ composite_done

\* stage 5: the level 2 capabilities came back
continue_get_client_capabilities ==
    /\ pc = "LogonGetCapabilities2"
    /\ UNCHANGED <<input_vars, key_vars, auth_requested_negotiate_flags>>
    /\ \/ /\ \E st \in CapsCallErrors :
               /\ received(st, "NONE", FALSE)
               /\ IF caps2_unsupported(st)
                  THEN continue_logon_control_do
                  ELSE composite_error(st)
          /\ UNCHANGED <<creds_state, save_creds_state, caps_vars, cli_netlogon_creds>>
       \/ \E res \in CapsResults, verified \in BOOLEAN,
             caps \in NearFlagSets(auth_requested_negotiate_flags) :
            get_client_capabilities_received(res, caps, verified)

\* variant: the probe has to succeed
logon_control_ok_wants_ok(call_ok, werr) ==
    call_ok /\ werr = "WERR_OK"

\* variant: the status of the call is not looked at
logon_control_ok_ignores_call(call_ok, werr) ==
    werr = "WERR_NOT_SUPPORTED"

\* the probe is understood and answered "not supported"
logon_control_ok(call_ok, werr) ==
    call_ok /\ werr = "WERR_NOT_SUPPORTED"

\* stage 6: the LogonControl probe came back
continue_logon_control_done ==
    /\ pc = "LogonControl"
    /\ UNCHANGED <<input_vars, key_vars, auth_vars, cli_netlogon_creds>>
    /\ \E call \in {"NT_STATUS_OK"} \cup TransportErrors, werr \in ControlResults :
         /\ received(call, IF call = "NT_STATUS_OK" THEN werr ELSE "NONE", FALSE)
         /\ IF logon_control_ok(call = "NT_STATUS_OK", werr)
            THEN composite_done
            ELSE composite_error("NT_STATUS_DOWNGRADE_DETECTED")

Next ==
    \/ continue_epm_map_binding
    \/ continue_secondary_connection
    \/ continue_bind_auth_none
    \/ continue_srv_challenge
    \/ continue_srv_auth2
    \/ continue_bind_auth
    \/ continue_get_negotiated_capabilities
    \/ continue_get_client_capabilities
    \/ continue_logon_control_done

Spec == Init /\ [][Next]_vars

\* every request that was issued receives a result: the continuation that
\* waits for it runs
FairSpec == Spec /\ WF_vars(Next)

(* ---- vocabulary of the properties ---- *)

\* number of requests of one operation issued so far
CountOp(op) == Cardinality({i \in DOMAIN sent : sent[i].op = op})

\* the retries started so far
Retries == CountOp("ServerReqChallenge") - 1

\* this step handles a ServerAuthenticate2 response that carries a result
Auth2ReplyStep ==
    pc = "ServerAuthenticate2" /\ auth2_replies' = auth2_replies + 1

\* this step starts a retry: the authenticate handler sends a challenge request
RetryStep ==
    pc = "ServerAuthenticate2" /\ pc' = "ServerReqChallenge"

\* every required bit, after AES supersession, is in the negotiated flags
RequiredCovered(required, negotiated, local_max) ==
    LET effective ==
            IF "SUPPORTS_AES" \in negotiated /\ "SUPPORTS_AES" \in local_max
            THEN required \ {"ARCFOUR", "STRONG_KEYS"}
            ELSE required
    IN  effective \subseteq negotiated

OkOrDenied == {"NT_STATUS_OK", "NT_STATUS_ACCESS_DENIED"}

\* the handshake has failed on an authenticate response and every
\* authenticate response so far was access denied
EndedOnDenial ==
    /\ pc = "failed"
    /\ auth2_replies >= 1
    /\ a_result = "NT_STATUS_ACCESS_DENIED"
    /\ status \notin TransportErrors \cup {"NT_STATUS_INTERNAL_ERROR"}

\* this step handles the response of the request that was in flight at op
ReplyStep(op) == pc = op /\ reply'.seq = reply.seq + 1

\* the request issued last
LastSent == sent[Len(sent)]

\* a response of a capability query that succeeded with a verified authenticator
CapsAnswer(r) == r.call = "NT_STATUS_OK" /\ r.result = "NT_STATUS_OK" /\ r.verified

\* the probe was understood and answered "not supported"
ProbeNotSupported(r) == r.call = "NT_STATUS_OK" /\ r.result = "WERR_NOT_SUPPORTED"

\* the bits in which two flag words differ
DifferingBits(a, b) == (a \ b) \cup (b \ a)

\* the call failures that stand for "level 2 not understood"
Level2NotUnderstood ==
    {"NT_STATUS_RPC_BAD_STUB_DATA", "NT_STATUS_RPC_ENUM_VALUE_OUT_OF_RANGE"}

\* the requests whose transport failure ends the handshake with its status
KeyAndBindOps ==
    {"epm_map_binding", "secondary_connection", "bind_auth_none",
     "ServerReqChallenge", "ServerAuthenticate2", "bind_auth"}

Terminal == {"done", "failed"}

\* requests issued and not answered yet
InFlight == Len(sent) - reply.seq

\* the channel class of the connection: a later flag of
\* dcerpc_schannel_key_send overrides the earlier ones
ChannelClass ==
    IF "DCERPC_SCHANNEL_AUTO" \in conn_flags THEN "automatic"
    ELSE IF "DCERPC_SCHANNEL_AES" \in conn_flags THEN "explicit_aes"
    ELSE IF "DCERPC_SCHANNEL_128" \in conn_flags THEN "explicit_128"
    ELSE "legacy"

\* the capability bits a channel class offers by itself
CandidateBits ==
    IF ChannelClass = "legacy"
    THEN {"ARCFOUR", "PASSWORD_SET2"}
    ELSE {"ARCFOUR", "PASSWORD_SET2", "STRONG_KEYS", "AUTHENTICATED_RPC"}
         \cup (IF ChannelClass = "automatic" THEN {"SUPPORTS_AES"} ELSE {})

\* the bit the secure channel type adds
ChannelTypeBits ==
    IF schannel_type = "SEC_CHAN_RODC" THEN {"RODC_PASSTHROUGH"} ELSE {}

\* the requests of the capability verification stages
VerificationOps == {"bind_auth", "LogonGetCapabilities", "LogonControl"}

\* the position of the handshake is in the capability verification stages
InVerification ==
    pc \in {"bind_auth", "LogonGetCapabilities1", "LogonGetCapabilities2", "LogonControl"}

\* this step completes the key establishment: the authenticated bind goes out
KeyDoneStep == pc = "ServerAuthenticate2" /\ pc' = "bind_auth"

(* ---- C1 ---- *)
(* ---- C1 ---- *)

\* C1: an authenticate response with result OK or access denied, on the first
\* attempt or on the retry, whose flags do not cover the required flags
\* (after AES supersession) ends the handshake with DOWNGRADE_DETECTED, and a
\* failed handshake stays failed (it never reaches done).
C1_DowngradeDetectedOnEveryAttempt ==
    [][/\ (Auth2ReplyStep
           /\ a_result' \in OkOrDenied
           /\ ~RequiredCovered(required_negotiate_flags, remote_negotiate_flags',
                               local_negotiate_flags))
          => (pc' = "failed" /\ status' = "NT_STATUS_DOWNGRADE_DETECTED")
       /\ pc = "failed" => pc' = "failed"]_vars

\* the retry's response lacks a required bit and the handshake failed on it
C1_Witness ==
    /\ auth2_replies = 2
    /\ pc = "failed"
    /\ status = "NT_STATUS_DOWNGRADE_DETECTED"
    /\ a_result \in OkOrDenied
    /\ ~RequiredCovered(required_negotiate_flags, remote_negotiate_flags,
                        local_negotiate_flags)

(* ---- C2 ---- *)

\* C2: when the local flags and the peer's flags both have AES and the
\* required set has arcfour / strong keys but not AES, the response is not a
\* downgrade although arcfour and strong keys may be missing from the peer's
\* flags (the other required bits being there).
C2_AesSupersession ==
    [][(Auth2ReplyStep
        /\ a_result' \in OkOrDenied
        /\ "SUPPORTS_AES" \in local_negotiate_flags
        /\ "SUPPORTS_AES" \in remote_negotiate_flags'
        /\ "SUPPORTS_AES" \notin required_negotiate_flags
        /\ required_negotiate_flags \cap {"ARCFOUR", "STRONG_KEYS"} # {}
        /\ (required_negotiate_flags \ {"ARCFOUR", "STRONG_KEYS"})
               \subseteq remote_negotiate_flags')
       => status' # "NT_STATUS_DOWNGRADE_DETECTED"]_vars

\* strong keys required, neither arcfour nor strong keys returned, AES on both
\* sides: the key request succeeded
C2_Witness ==
    /\ pc = "bind_auth"
    /\ auth2_replies = 1
    /\ "STRONG_KEYS" \in required_negotiate_flags
    /\ "SUPPORTS_AES" \notin required_negotiate_flags
    /\ "SUPPORTS_AES" \in local_negotiate_flags
    /\ "SUPPORTS_AES" \in remote_negotiate_flags
    /\ remote_negotiate_flags \cap {"ARCFOUR", "STRONG_KEYS"} = {}

(* ---- C3 ---- *)

\* C3: strong keys required, strong keys missing from the flags of an
\* authenticate response (OK or access denied), and AES missing from the local
\* flags or from the response: the handshake ends with DOWNGRADE_DETECTED.
C3_DowngradeMonotonicity ==
    [][(Auth2ReplyStep
        /\ a_result' \in OkOrDenied
        /\ "STRONG_KEYS" \in required_negotiate_flags
        /\ "STRONG_KEYS" \notin remote_negotiate_flags'
        /\ ("SUPPORTS_AES" \notin local_negotiate_flags
            \/ "SUPPORTS_AES" \notin remote_negotiate_flags'))
       => (pc' = "failed" /\ status' = "NT_STATUS_DOWNGRADE_DETECTED")]_vars

\* AES offered, the response has neither AES nor strong keys but all else
C3_Witness ==
    /\ pc = "failed"
    /\ status = "NT_STATUS_DOWNGRADE_DETECTED"
    /\ auth2_replies = 1
    /\ "STRONG_KEYS" \in required_negotiate_flags
    /\ "SUPPORTS_AES" \in local_negotiate_flags
    /\ remote_negotiate_flags = required_negotiate_flags \ {"STRONG_KEYS"}

(* ---- C4 ---- *)

\* C4: at most two challenge requests and at most two authenticate requests
\* are ever sent, and after the second challenge request no step sends another.
C4_AtMostOneRetry ==
    /\ CountOp("ServerReqChallenge") <= 2
    /\ CountOp("ServerAuthenticate2") <= 2

\* a second denial after the retry, with flags that differ again
C4_Witness ==
    /\ CountOp("ServerReqChallenge") = 2
    /\ CountOp("ServerAuthenticate2") = 2
    /\ auth2_replies = 2
    /\ a_result = "NT_STATUS_ACCESS_DENIED"
    /\ remote_negotiate_flags \cap local_negotiate_flags # local_negotiate_flags
    /\ pc = "failed"

(* ---- C5 ---- *)

\* C5 as stated, read in its favour: against an automatic class handshake
\* whose every authenticate response is access denied with fewer flags than
\* offered (flags that still cover the required ones), exactly one retry is
\* made before the handshake fails with access denied or downgrade detected.
C5_ExactlyOneRetry ==
    (/\ EndedOnDenial
     /\ "DCERPC_SCHANNEL_AUTO" \in conn_flags
     /\ remote_negotiate_flags \subseteq requested_negotiate_flags
     /\ remote_negotiate_flags # requested_negotiate_flags
     /\ RequiredCovered(required_negotiate_flags, remote_negotiate_flags,
                        local_negotiate_flags))
    => /\ Retries = 1
       /\ status \in {"NT_STATUS_ACCESS_DENIED", "NT_STATUS_DOWNGRADE_DETECTED"}

\* C5 amended: when every authenticate response is access denied, the
\* handshake makes at most one retry and fails with access denied or downgrade
\* detected; a second denial always ends it.
C5_AtMostOneRetryThenFails ==
    /\ EndedOnDenial
       => /\ Retries <= 1
          /\ status \in {"NT_STATUS_ACCESS_DENIED", "NT_STATUS_DOWNGRADE_DETECTED"}
    /\ (auth2_replies = 2 /\ a_result = "NT_STATUS_ACCESS_DENIED") => pc = "failed"

\* denied, retried, denied again: failed with access denied
C5_Witness ==
    /\ EndedOnDenial
    /\ Retries = 1
    /\ auth2_replies = 2
    /\ status = "NT_STATUS_ACCESS_DENIED"

(* ---- C6 ---- *)

\* C6: a retry starts only on an access denied result, with the retry switch
\* still on, and with local flags that the peer's flags do not cover.
C6_RetryOnlyWhenEligible ==
    [][RetryStep
       => /\ Auth2ReplyStep
          /\ a_result' = "NT_STATUS_ACCESS_DENIED"
          /\ dcerpc_schannel_auto
          /\ (local_negotiate_flags \cap remote_negotiate_flags')
                 # local_negotiate_flags]_vars

\* a retry was started
C6_Witness ==
    /\ pc = "ServerReqChallenge"
    /\ Retries = 1
    /\ a_result = "NT_STATUS_ACCESS_DENIED"

(* ---- C7 ---- *)

\* C7 as stated, read in its favour: an access denied response that passes
\* the required flags check, with the retry switch on, no retry made yet and
\* local flags not covered by the peer's flags, always sends a new challenge
\* request.
C7_RetryWheneverEligible ==
    [][(Auth2ReplyStep
        /\ a_result' = "NT_STATUS_ACCESS_DENIED"
        /\ dcerpc_schannel_auto
        /\ Retries = 0
        /\ (local_negotiate_flags \cap remote_negotiate_flags')
               # local_negotiate_flags
        /\ RequiredCovered(required_negotiate_flags, remote_negotiate_flags',
                           local_negotiate_flags))
       => pc' = "ServerReqChallenge"]_vars

\* C7 amended: such a response sends a new challenge request when, in
\* addition, the peer's flags cover the required flags and lack the AES bit.
C7_RetryWhenAesDropped ==
    [][(Auth2ReplyStep
        /\ a_result' = "NT_STATUS_ACCESS_DENIED"
        /\ dcerpc_schannel_auto
        /\ Retries = 0
        /\ (local_negotiate_flags \cap remote_negotiate_flags')
               # local_negotiate_flags
        /\ RequiredCovered(required_negotiate_flags, remote_negotiate_flags',
                           local_negotiate_flags)
        /\ "SUPPORTS_AES" \notin remote_negotiate_flags')
       => /\ pc' = "ServerReqChallenge"
          /\ CountOp("ServerReqChallenge")' = 2]_vars

\* the peer kept strong keys and dropped AES: the challenge is sent again
C7_Witness ==
    /\ pc = "ServerReqChallenge"
    /\ Retries = 1
    /\ "STRONG_KEYS" \in remote_negotiate_flags
    /\ "SUPPORTS_AES" \notin remote_negotiate_flags

(* ---- C8 ---- *)

\* C8: a retry sets the local flags to their intersection with the flags of
\* the denied response, and the credentials of every authenticate request are
\* derived with the local flags of that moment (the narrowed ones on a retry).
C8_RetryNarrowsLocal ==
    [][/\ RetryStep
          => local_negotiate_flags'
                 = local_negotiate_flags \cap remote_negotiate_flags'
       /\ (pc = "ServerReqChallenge" /\ pc' = "ServerAuthenticate2")
          => /\ creds'.valid
             /\ creds'.key_flags = local_negotiate_flags'
             /\ (Retries = 1 =>
                    creds'.key_flags
                        = requested_negotiate_flags \cap remote_negotiate_flags)]_vars

\* the second authenticate request is out, its key derived with fewer flags
C8_Witness ==
    /\ pc = "ServerAuthenticate2"
    /\ Retries = 1
    /\ creds.key_flags = local_negotiate_flags
    /\ creds.key_flags # requested_negotiate_flags

(* ---- C9 ---- *)

\* C9: no step changes the required or the requested flags; a retry changes
\* the local flags only.
C9_PolicyFlagsFrozen ==
    [][/\ required_negotiate_flags' = required_negotiate_flags
       /\ requested_negotiate_flags' = requested_negotiate_flags]_vars

\* after a retry the local flags are narrower than the requested ones
C9_Witness ==
    /\ Retries = 1
    /\ local_negotiate_flags # requested_negotiate_flags
    /\ local_negotiate_flags \subseteq requested_negotiate_flags
    /\ required_negotiate_flags \subseteq requested_negotiate_flags

(* ---- C10 ---- *)

\* the generations of the challenges carried by the challenge requests, in order
ChallengeGens ==
    LET idx == {i \in DOMAIN sent : sent[i].op = "ServerReqChallenge"}
    IN  {sent[i].gen : i \in idx}

\* C10: the n-th challenge request carries the n-th generated challenge: each
\* request is preceded by its own generate_random_buffer call and no
\* generation is sent twice.
C10_FreshChallengePerRequest ==
    /\ Cardinality(ChallengeGens) = CountOp("ServerReqChallenge")
    /\ ChallengeGens = 1..CountOp("ServerReqChallenge")
    /\ chal_gen = CountOp("ServerReqChallenge")

\* two challenge requests are out, carrying the first and the second challenge
C10_Witness ==
    /\ CountOp("ServerReqChallenge") = 2
    /\ ChallengeGens = {1, 2}

(* ---- C11 ---- *)

\* C11: when the level 1 capability query succeeds with a verified return
\* authenticator and the capabilities the server reports differ in any bit
\* from the flags negotiated at the authenticate step, the handshake fails
\* with DOWNGRADE_DETECTED.
C11_Level1MismatchIsDowngrade ==
    [][(/\ ReplyStep("LogonGetCapabilities1")
        /\ CapsAnswer(reply')
        /\ DifferingBits(capabilities', creds_state.negotiate_flags) # {})
       => (pc' = "failed" /\ status' = "NT_STATUS_DOWNGRADE_DETECTED")]_vars

\* a verified level 1 answer with one bit more than negotiated failed the handshake
C11_Witness ==
    /\ pc = "failed"
    /\ status = "NT_STATUS_DOWNGRADE_DETECTED"
    /\ LastSent = Request("LogonGetCapabilities", "primary", 1)
    /\ CapsAnswer(reply)
    /\ creds_state.negotiate_flags \subseteq capabilities
    /\ Cardinality(DifferingBits(capabilities, creds_state.negotiate_flags)) = 1

(* ---- C12 ---- *)

\* C12: when the level 2 query succeeds with a verified authenticator and
\* reports requested flags that differ from the flags sent in the authenticate
\* call, the handshake fails with DOWNGRADE_DETECTED; the step from the level 2
\* query to done is taken only on a verified answer that echoes them exactly.
C12_Level2EchoesRequested ==
    [][ReplyStep("LogonGetCapabilities2")
       => /\ (CapsAnswer(reply') /\ client_caps' # requested_negotiate_flags)
             => (pc' = "failed" /\ status' = "NT_STATUS_DOWNGRADE_DETECTED")
          /\ pc' = "done"
             => (CapsAnswer(reply') /\ client_caps' = requested_negotiate_flags)]_vars

\* a verified level 2 answer with one bit more than requested failed the handshake
C12_Witness ==
    /\ pc = "failed"
    /\ status = "NT_STATUS_DOWNGRADE_DETECTED"
    /\ LastSent = Request("LogonGetCapabilities", "primary", 2)
    /\ CapsAnswer(reply)
    /\ requested_negotiate_flags \subseteq client_caps
    /\ Cardinality(DifferingBits(client_caps, requested_negotiate_flags)) = 1

(* ---- C13 ---- *)

\* C13: when the level 1 query was answered "operation not recognized" and the
\* LogonControl probe then comes back understood with "not supported", the
\* handshake is done with status OK and the credentials keep the flags
\* negotiated at the authenticate step.
C13_LegacyFallbackSucceeds ==
    [][(/\ ReplyStep("LogonControl")
        /\ CountOp("LogonGetCapabilities") = 1
        /\ reply.call = "NT_STATUS_RPC_PROCNUM_OUT_OF_RANGE"
        /\ ProbeNotSupported(reply'))
       => /\ pc' = "done"
          /\ status' = "NT_STATUS_OK"
          /\ creds_state'.negotiate_flags
               = local_negotiate_flags \cap remote_negotiate_flags
          /\ cli_netlogon_creds'.negotiate_flags
               = local_negotiate_flags \cap remote_negotiate_flags]_vars

\* done through the probe that followed the level 1 query
C13_Witness ==
    /\ pc = "done"
    /\ status = "NT_STATUS_OK"
    /\ CountOp("LogonGetCapabilities") = 1
    /\ LastSent = Request("LogonControl", "primary", 0)
    /\ ProbeNotSupported(reply)
    /\ creds_state.negotiate_flags # {}

(* ---- C14 ---- *)

\* C14: once the LogonControl probe is issued, its response leads to done
\* exactly when the call succeeded and its result is "not supported"; every
\* other response (a failed call, success, any other result) ends the
\* handshake with DOWNGRADE_DETECTED.
C14_ProbeOutcome ==
    [][ReplyStep("LogonControl")
       => IF ProbeNotSupported(reply')
          THEN pc' = "done" /\ status' = "NT_STATUS_OK"
          ELSE pc' = "failed" /\ status' = "NT_STATUS_DOWNGRADE_DETECTED"]_vars

\* a probe that the server executed successfully failed the handshake
C14_Witness ==
    /\ pc = "failed"
    /\ status = "NT_STATUS_DOWNGRADE_DETECTED"
    /\ LastSent = Request("LogonControl", "primary", 0)
    /\ reply.call = "NT_STATUS_OK"
    /\ reply.result = "WERR_OK"

(* ---- C15 ---- *)

\* C15: on the level 2 query a call that fails with bad stub data is treated
\* like one that fails with an out of range enum value: both issue the
\* LogonControl probe and nothing else, the outcome after the probe depends on
\* the probe's response alone, and every other failure of the level 2 call
\* ends the handshake with that status without a probe.
C15_BadStubIsEnumOutOfRange ==
    [][/\ ReplyStep("LogonGetCapabilities2")
          => /\ reply'.call \in Level2NotUnderstood
                => /\ pc' = "LogonControl"
                   /\ status' = "PENDING"
                   /\ sent' = Append(sent, Request("LogonControl", "primary", 0))
             /\ reply'.call \notin Level2NotUnderstood \cup {"NT_STATUS_OK"}
                => /\ pc' = "failed"
                   /\ status' = reply'.call
                   /\ sent' = sent
             /\ pc' = "LogonControl" => reply'.call \in Level2NotUnderstood
       /\ (ReplyStep("LogonControl") /\ reply.call \in Level2NotUnderstood)
          => IF ProbeNotSupported(reply')
             THEN pc' = "done" /\ status' = "NT_STATUS_OK"
             ELSE pc' = "failed" /\ status' = "NT_STATUS_DOWNGRADE_DETECTED"]_vars

\* the probe is in flight because the level 2 call failed with bad stub data
C15_Witness ==
    /\ pc = "LogonControl"
    /\ CountOp("LogonGetCapabilities") = 2
    /\ reply.call = "NT_STATUS_RPC_BAD_STUB_DATA"

(* ---- C16 ---- *)

\* C16: when the endpoint mapping, the secondary connection, the
\* unauthenticated bind, the challenge call, the authenticate call or the
\* authenticated bind fails in the transport, the handshake fails with exactly
\* that status and issues no further request, in that step or later.
C16_TransportFailurePropagates ==
    [][/\ (pc \in KeyAndBindOps /\ ReplyStep(pc) /\ reply'.call # "NT_STATUS_OK")
          => /\ pc' = "failed"
             /\ status' = reply'.call
             /\ sent' = sent
       /\ pc = "failed" => sent' = sent]_vars

\* the authenticated bind timed out and the handshake failed with the timeout
C16_Witness ==
    /\ pc = "failed"
    /\ status = "NT_STATUS_IO_TIMEOUT"
    /\ reply.call = "NT_STATUS_IO_TIMEOUT"
    /\ LastSent = Request("bind_auth", "primary", 0)

(* ---- C17 ---- *)

\* C17 as stated, read in its favour (the retry is eligible exactly when the
\* handler starts one): an access denied result of the authenticate call either
\* starts the retry, and nothing is surfaced, or fails the handshake with
\* access denied.
C17_DenialSurfacesAsAccessDenied ==
    [][(Auth2ReplyStep /\ a_result' = "NT_STATUS_ACCESS_DENIED")
       => IF pc' = "ServerReqChallenge"
          THEN status' = "PENDING"
          ELSE pc' = "failed" /\ status' = "NT_STATUS_ACCESS_DENIED"]_vars

\* C17 amended: an access denied result whose flags do not cover the required
\* flags fails the handshake with DOWNGRADE_DETECTED; otherwise it is not
\* surfaced when the retry switch is on, the flags differ from the local ones
\* and lack the AES bit (a retry starts), and in every other case, the denied
\* retry included, the handshake fails with access denied.
C17_DenialSurfacesUnlessRetried ==
    [][(Auth2ReplyStep /\ a_result' = "NT_STATUS_ACCESS_DENIED")
       => IF ~RequiredCovered(required_negotiate_flags, remote_negotiate_flags',
                              local_negotiate_flags)
          THEN pc' = "failed" /\ status' = "NT_STATUS_DOWNGRADE_DETECTED"
          ELSE IF /\ dcerpc_schannel_auto
                  /\ (local_negotiate_flags \cap remote_negotiate_flags')
                         # local_negotiate_flags
                  /\ "SUPPORTS_AES" \notin remote_negotiate_flags'
          THEN pc' = "ServerReqChallenge" /\ status' = "PENDING"
          ELSE pc' = "failed" /\ status' = "NT_STATUS_ACCESS_DENIED"]_vars

\* the retry was denied as well and the handshake failed with access denied
C17_Witness ==
    /\ pc = "failed"
    /\ status = "NT_STATUS_ACCESS_DENIED"
    /\ Retries = 1
    /\ auth2_replies = 2
    /\ a_result = "NT_STATUS_ACCESS_DENIED"

(* ---- C18 ---- *)

\* C18: a handshake that has reported an outcome takes no further step: it
\* issues no request, starts no retry and never changes its outcome, so done
\* and failed are absorbing and a failed handshake never becomes done; an
\* outcome is reported exactly in the states done (OK) and failed (an error).
C18_OutcomeIsFinal ==
    [][/\ (status # "PENDING" \/ pc \in Terminal) => UNCHANGED vars
       /\ (status' # "PENDING") <=> (pc' \in Terminal)
       /\ (status' = "NT_STATUS_OK") <=> (pc' = "done")]_vars

\* the handshake failed on the retry
C18_Witness ==
    /\ pc = "failed"
    /\ status = "NT_STATUS_DOWNGRADE_DETECTED"
    /\ Retries = 1

(* ---- C19 ---- *)

\* C19: in every reachable state at most one request is in flight: every
\* request but the last has been answered, and the last one is unanswered
\* exactly while the handshake is neither done nor failed, so a continuation
\* issues at most one request and only after the previous one was answered.
C19_OneOperationInFlight ==
    /\ InFlight \in {0, 1}
    /\ (InFlight = 1) <=> (pc \notin Terminal)

\* the retry's challenge request is the only request in flight
C19_Witness ==
    /\ pc = "ServerReqChallenge"
    /\ Retries = 1
    /\ Len(sent) = 6
    /\ InFlight = 1

(* ---- C20 ---- *)

\* C20: in every state that is not done, the failed states included, the
\* derived credentials are not attached to the caller's credentials object.
C20_NoKeyBeforeDone ==
    pc # "done" => ~cli_netlogon_creds.valid

(* ---- C21 ---- *)

C22_RequiredFollowsPolicy ==
    /\ (require_strong_key /\ ~reject_md5_servers)
         => {"ARCFOUR", "STRONG_KEYS"} \subseteq required_negotiate_flags
    /\ reject_md5_servers
         => /\ "SUPPORTS_AES" \in required_negotiate_flags
            /\ "ARCFOUR" \notin required_negotiate_flags
            /\ "STRONG_KEYS" \notin required_negotiate_flags

\* an automatic connection whose configuration rejects servers without AES
C22_Witness ==
    /\ pc = "ServerReqChallenge"
    /\ ChannelClass = "automatic"
    /\ reject_md5_servers
    /\ require_strong_key
    /\ required_negotiate_flags
         = {"AUTHENTICATED_RPC", "PASSWORD_SET2", "SUPPORTS_AES"}

(* ---- C23 ---- *)

\* C23: on a connection of the explicit AES class, whatever the other
\* connection flags and the configuration, the required flags contain the AES
\* bit, and once the peer has returned authenticate flags without the AES bit
\* the handshake has failed: it is never done.
C23_ExplicitAesRequiresAes ==
    ChannelClass = "explicit_aes"
    => /\ "SUPPORTS_AES" \in required_negotiate_flags
       /\ (auth2_replies >= 1 /\ "SUPPORTS_AES" \notin remote_negotiate_flags)
            => pc = "failed"
       /\ pc = "done" => "SUPPORTS_AES" \in creds_state.negotiate_flags

\* the peer of an explicit AES connection answered OK with every bit but AES
C23_Witness ==
    /\ ChannelClass = "explicit_aes"
    /\ pc = "failed"
    /\ status = "NT_STATUS_DOWNGRADE_DETECTED"
    /\ a_result = "NT_STATUS_OK"
    /\ remote_negotiate_flags = requested_negotiate_flags \ {"SUPPORTS_AES"}

(* ---- C24 ---- *)

\* C24: the retry switch is on only for a connection of the automatic class;
\* on any other connection an access denied authenticate result fails the
\* handshake in that step and no second challenge request is ever sent.
C24_RetryOnlyForAutomatic ==
    [][/\ dcerpc_schannel_auto => ChannelClass = "automatic"
       /\ ChannelClass # "automatic"
          => /\ (Auth2ReplyStep /\ a_result' = "NT_STATUS_ACCESS_DENIED")
                => (pc' = "failed" /\ sent' = sent)
             /\ CountOp("ServerReqChallenge")' <= 1]_vars

\* a legacy connection was denied with flags that differ from the local ones
\* and cover the required ones, and failed without a retry
C24_Witness ==
    /\ ChannelClass = "legacy"
    /\ pc = "failed"
    /\ status = "NT_STATUS_ACCESS_DENIED"
    /\ a_result = "NT_STATUS_ACCESS_DENIED"
    /\ (local_negotiate_flags \cap remote_negotiate_flags) # local_negotiate_flags
    /\ RequiredCovered(required_negotiate_flags, remote_negotiate_flags,
                       local_negotiate_flags)
    /\ CountOp("ServerReqChallenge") = 1

(* ---- C25 ---- *)

C26_FlagsNarrowedOnce ==
    [][/\ InVerification
          => /\ creds_state'.negotiate_flags = creds_state.negotiate_flags
             /\ cli_netlogon_creds'.negotiate_flags = creds_state.negotiate_flags
             /\ creds' = creds
             /\ local_negotiate_flags' = local_negotiate_flags
             /\ requested_negotiate_flags' = requested_negotiate_flags
       /\ local_negotiate_flags' # local_negotiate_flags
          => /\ RetryStep
             /\ local_negotiate_flags = requested_negotiate_flags
             /\ local_negotiate_flags' \subseteq local_negotiate_flags
       /\ KeyDoneStep
          => creds_state'.negotiate_flags
               = IF Retries = 0
                 THEN requested_negotiate_flags \cap remote_negotiate_flags'
                 ELSE local_negotiate_flags]_vars

\* done after a retry and a level 1 query: the flags are the narrowed local ones
C26_Witness ==
    /\ pc = "done"
    /\ Retries = 1
    /\ LastSent = Request("LogonGetCapabilities", "primary", 1)
    /\ creds_state.negotiate_flags = local_negotiate_flags
    /\ local_negotiate_flags # requested_negotiate_flags

(* ---- C27 ---- *)

\* C27: every challenge and authenticate request in the log, the retry's
\* included, went out on the secondary pipe, after the secondary connection was
\* requested; the authenticated bind, the capability queries and the probe
\* went out on the primary pipe, after an authenticate request, and any of
\* them is in the log only when the key establishment produced credentials.
C27_PipeOfEveryRequest ==
    \A i \in DOMAIN sent :
        /\ sent[i].op \in {"ServerReqChallenge", "ServerAuthenticate2"}
             => /\ sent[i].pipe = "secondary"
                /\ \E j \in 1..(i - 1) : sent[j].op = "secondary_connection"
        /\ sent[i].op \in VerificationOps
             => /\ sent[i].pipe = "primary"
                /\ \E j \in 1..(i - 1) : sent[j].op = "ServerAuthenticate2"
                /\ \A j \in (i + 1)..Len(sent) : sent[j].pipe = "primary"
                /\ creds_state.valid
                /\ a_result = "NT_STATUS_OK"

\* the level 1 query is out on the primary pipe after a retry on the secondary
C27_Witness ==
    /\ pc = "LogonGetCapabilities1"
    /\ Retries = 1
    /\ CountOp("ServerAuthenticate2") = 2
    /\ LastSent.pipe = "primary"

(* ---- C28 ---- *)

\* C28: a return credential that does not verify fails the handshake in the
\* step that checks it, with no request sent: on an authenticate response with
\* result OK, on a level 1 response (other than "not implemented", which is
\* answered before the credential is looked at) and on a level 2 response.
C28_BadCredentialIsFatal ==
    [][/\ (Auth2ReplyStep /\ a_result' = "NT_STATUS_OK" /\ ~reply'.verified)
          => (pc' = "failed" /\ sent' = sent)
       /\ (/\ ReplyStep("LogonGetCapabilities1")
           /\ reply'.call = "NT_STATUS_OK"
           /\ reply'.result # "NT_STATUS_NOT_IMPLEMENTED"
           /\ ~reply'.verified)
          => (pc' = "failed" /\ sent' = sent)
       /\ (/\ ReplyStep("LogonGetCapabilities2")
           /\ reply'.call = "NT_STATUS_OK"
           /\ ~reply'.verified)
          => (pc' = "failed" /\ sent' = sent)
       /\ pc = "failed" => (pc' = "failed" /\ sent' = sent)]_vars

\* the level 2 answer echoed the requested flags with a credential that does
\* not verify
C28_Witness ==
    /\ pc = "failed"
    /\ LastSent = Request("LogonGetCapabilities", "primary", 2)
    /\ reply.call = "NT_STATUS_OK"
    /\ reply.result = "NT_STATUS_OK"
    /\ ~reply.verified
    /\ client_caps = requested_negotiate_flags

(* ---- C29 ---- *)

\* C29: when every request that is issued receives a result, the handshake
\* ends, done or failed, whatever the peer answers; it never issues an
\* operation more often than once (the challenge call, the authenticate call
\* and the capability query: than twice) nor more than ten requests in all
\* (the longest run: three connection steps, two challenge and two
\* authenticate calls, the authenticated bind, the level 1 query, the probe).
C29_Terminates ==
    /\ [](/\ Len(sent) <= 10
          /\ \A i \in DOMAIN sent :
                CountOp(sent[i].op)
                    <= IF sent[i].op \in {"ServerReqChallenge", "ServerAuthenticate2",
                                          "LogonGetCapabilities"}
                       THEN 2 ELSE 1)
    /\ <>(pc \in Terminal)

\* the longest run has ended: a retry, the level 1 query and the probe
C29_Witness ==
    /\ pc \in Terminal
    /\ Retries = 1
    /\ Len(sent) = 10
    /\ InFlight = 0

(* ---- C30 ---- *)

\* C30: once the key establishment has succeeded the negotiated flags of the
\* credentials contain the authenticated rpc bit; when strong keys are required
\* they contain the AES bit or both the arcfour and the strong key bit; when
\* servers without AES are rejected they contain the AES bit.
C30_NegotiatedMeetsPolicy ==
    creds_state.valid
    => /\ "AUTHENTICATED_RPC" \in creds_state.negotiate_flags
       /\ require_strong_key
            => \/ "SUPPORTS_AES" \in creds_state.negotiate_flags
               \/ {"ARCFOUR", "STRONG_KEYS"} \subseteq creds_state.negotiate_flags
       /\ reject_md5_servers
            => "SUPPORTS_AES" \in creds_state.negotiate_flags

\* strong keys required on an automatic connection, the peer has no AES: the
\* key establishment succeeded with arcfour and strong keys
C30_Witness ==
    /\ pc = "bind_auth"
    /\ creds_state.valid
    /\ ChannelClass = "automatic"
    /\ require_strong_key
    /\ ~reject_md5_servers
    /\ "SUPPORTS_AES" \notin creds_state.negotiate_flags

(* ---- C31 ---- *)

\* C31: an access denied authenticate response whose flags do not cover the
\* required flags ends the handshake with DOWNGRADE_DETECTED and sends
\* nothing, whether or not the retry switch is on; and when servers without
\* AES are rejected no step ever starts a retry.
C31_RequiredCheckBeforeRetry ==
    [][/\ (/\ Auth2ReplyStep
           /\ a_result' = "NT_STATUS_ACCESS_DENIED"
           /\ ~RequiredCovered(required_negotiate_flags, remote_negotiate_flags',
                               local_negotiate_flags))
          => /\ pc' = "failed"
             /\ status' = "NT_STATUS_DOWNGRADE_DETECTED"
             /\ sent' = sent
       /\ reject_md5_servers
          => (~RetryStep /\ CountOp("ServerReqChallenge") <= 1)]_vars

\* servers without AES are rejected, the retry switch is on and the peer
\* denied with every offered bit but AES: no retry, a downgrade is reported
C31_Witness ==
    /\ pc = "failed"
    /\ status = "NT_STATUS_DOWNGRADE_DETECTED"
    /\ a_result = "NT_STATUS_ACCESS_DENIED"
    /\ dcerpc_schannel_auto
    /\ reject_md5_servers
    /\ Retries = 0
    /\ remote_negotiate_flags = local_negotiate_flags \ {"SUPPORTS_AES"}

(* ---- C32 ---- *)

\* C32 as stated: a retry starts only when the local flags contain the AES bit
\* and the denied response's flags lack it; an access denied response whose
\* flags contain AES (or strong keys, when the local flags have strong keys
\* and no AES) fails the handshake with access denied and without a retry.
C32_DenialWithAesIsAccessDenied ==
    [][/\ RetryStep
          => /\ "SUPPORTS_AES" \in local_negotiate_flags
             /\ "SUPPORTS_AES" \notin remote_negotiate_flags'
       /\ (/\ Auth2ReplyStep
           /\ a_result' = "NT_STATUS_ACCESS_DENIED"
           /\ IF "SUPPORTS_AES" \in local_negotiate_flags
              THEN "SUPPORTS_AES" \in remote_negotiate_flags'
              ELSE /\ "STRONG_KEYS" \in local_negotiate_flags
                   /\ "STRONG_KEYS" \in remote_negotiate_flags')
          => /\ pc' = "failed"
             /\ status' = "NT_STATUS_ACCESS_DENIED"
             /\ sent' = sent]_vars

\* C32 amended: such a response fails the handshake without a retry, with
\* access denied when its flags cover the required flags and with
\* DOWNGRADE_DETECTED when they do not.
C32_DenialWithAesIsNotRetried ==
    [][/\ RetryStep
          => /\ "SUPPORTS_AES" \in local_negotiate_flags
             /\ "SUPPORTS_AES" \notin remote_negotiate_flags'
       /\ (/\ Auth2ReplyStep
           /\ a_result' = "NT_STATUS_ACCESS_DENIED"
           /\ IF "SUPPORTS_AES" \in local_negotiate_flags
              THEN "SUPPORTS_AES" \in remote_negotiate_flags'
              ELSE /\ "STRONG_KEYS" \in local_negotiate_flags
                   /\ "STRONG_KEYS" \in remote_negotiate_flags')
          => /\ pc' = "failed"
             /\ sent' = sent
             /\ status' = IF RequiredCovered(required_negotiate_flags,
                                             remote_negotiate_flags',
                                             local_negotiate_flags)
                          THEN "NT_STATUS_ACCESS_DENIED"
                          ELSE "NT_STATUS_DOWNGRADE_DETECTED"]_vars

\* the retry switch was on and the peer denied with AES but without strong
\* keys: access denied, no retry
C32_Witness ==
    /\ pc = "failed"
    /\ status = "NT_STATUS_ACCESS_DENIED"
    /\ a_result = "NT_STATUS_ACCESS_DENIED"
    /\ ChannelClass = "automatic"
    /\ auth2_replies = 1
    /\ Retries = 0
    /\ "SUPPORTS_AES" \in remote_negotiate_flags
    /\ "STRONG_KEYS" \notin remote_negotiate_flags

(* ---- C33 ---- *)

\* C33: after a retry the key establishment completes only on a response
\* whose flags equal the narrowed local flags; a second response with result
\* OK and a verifying credential whose flags differ from them, by missing or
\* by additional bits, ends the handshake with DOWNGRADE_DETECTED.
C33_SecondResponseMustMatch ==
    [][/\ (KeyDoneStep /\ Retries = 1)
          => /\ remote_negotiate_flags' = local_negotiate_flags
             /\ creds_state'.negotiate_flags = local_negotiate_flags
       /\ (/\ Auth2ReplyStep
           /\ Retries = 1
           /\ CapsAnswer(reply')
           /\ remote_negotiate_flags' # local_negotiate_flags)
          => /\ pc' = "failed"
             /\ status' = "NT_STATUS_DOWNGRADE_DETECTED"]_vars

\* the second response returned one bit more than the narrowed local flags
C33_Witness ==
    /\ pc = "failed"
    /\ status = "NT_STATUS_DOWNGRADE_DETECTED"
    /\ Retries = 1
    /\ auth2_replies = 2
    /\ CapsAnswer(reply)
    /\ local_negotiate_flags \subseteq remote_negotiate_flags
    /\ Cardinality(remote_negotiate_flags \ local_negotiate_flags) = 1

(* ---- C34 ---- *)

\* C34: once the key establishment has succeeded, the negotiated flags of the
\* credentials are the local flags of the successful attempt intersected with
\* the flags the peer returned, and they are a subset of the requested flags.
C34_NegotiatedIsIntersection ==
    creds_state.valid
    => /\ creds_state.negotiate_flags
            = local_negotiate_flags \cap remote_negotiate_flags
       /\ creds_state.negotiate_flags \subseteq requested_negotiate_flags

\* the peer returned a bit that was not offered and left out an offered one
C34_Witness ==
    /\ pc = "bind_auth"
    /\ creds_state.valid
    /\ remote_negotiate_flags \ local_negotiate_flags # {}
    /\ local_negotiate_flags \ remote_negotiate_flags # {}

(* ---- C35 ---- *)

\* C35: the local flags are always a subset of the requested flags, the
\* requested flags never change, and every authenticate request, the retry's
\* included, carries the requested flags while its key is derived with the
\* local flags of that moment.
C35_RequestedOnTheWire ==
    [][/\ local_negotiate_flags \subseteq requested_negotiate_flags
       /\ local_negotiate_flags' \subseteq requested_negotiate_flags'
       /\ requested_negotiate_flags' = requested_negotiate_flags
       /\ (pc = "ServerReqChallenge" /\ pc' = "ServerAuthenticate2")
          => /\ a_in_negotiate_flags' = requested_negotiate_flags
             /\ creds'.key_flags = local_negotiate_flags]_vars

\* the retry's authenticate request is out: requested flags on the wire, the
\* key derived with narrowed local flags
C35_Witness ==
    /\ pc = "ServerAuthenticate2"
    /\ Retries = 1
    /\ a_in_negotiate_flags = requested_negotiate_flags
    /\ local_negotiate_flags # requested_negotiate_flags
    /\ creds.key_flags = local_negotiate_flags

(* ---- C36 ---- *)

\* C36: when the level 1 capability query fails with PROCNUM_OUT_OF_RANGE, the
\* LogonControl probe is sent only if the negotiated flags contain neither
\* AES nor strong keys; otherwise the handshake ends with DOWNGRADE_DETECTED
\* and no probe is sent.
C36_ProbeOnlyForLegacyKeys ==
    [][(/\ ReplyStep("LogonGetCapabilities1")
        /\ reply'.call = "NT_STATUS_RPC_PROCNUM_OUT_OF_RANGE")
       => IF \/ "SUPPORTS_AES" \in creds_state.negotiate_flags
             \/ "STRONG_KEYS" \in creds_state.negotiate_flags
          THEN /\ pc' = "failed"
               /\ status' = "NT_STATUS_DOWNGRADE_DETECTED"
               /\ sent' = sent
          ELSE /\ pc' = "LogonControl"
               /\ sent' = Append(sent, Request("LogonControl", "primary", 0))]_vars

\* strong keys without AES were negotiated and the peer does not know the call
C36_Witness ==
    /\ pc = "failed"
    /\ status = "NT_STATUS_DOWNGRADE_DETECTED"
    /\ reply.call = "NT_STATUS_RPC_PROCNUM_OUT_OF_RANGE"
    /\ LastSent = Request("LogonGetCapabilities", "primary", 1)
    /\ "STRONG_KEYS" \in creds_state.negotiate_flags
    /\ "SUPPORTS_AES" \notin creds_state.negotiate_flags

(* ---- C37 ---- *)

\* C37: when the level 1 capability query returns the result "not
\* implemented", the handshake ends with DOWNGRADE_DETECTED if AES was
\* negotiated and is done otherwise, whether or not the return authenticator
\* verifies, with the credential chain left as it was and with neither the
\* level 2 query nor the probe sent.
C37_NotImplementedEndsAtOnce ==
    [][(/\ ReplyStep("LogonGetCapabilities1")
        /\ reply'.call = "NT_STATUS_OK"
        /\ reply'.result = "NT_STATUS_NOT_IMPLEMENTED")
       => /\ sent' = sent
          /\ creds_state' = creds_state
          /\ cli_netlogon_creds' = cli_netlogon_creds
          /\ IF "SUPPORTS_AES" \in creds_state.negotiate_flags
             THEN pc' = "failed" /\ status' = "NT_STATUS_DOWNGRADE_DETECTED"
             ELSE pc' = "done" /\ status' = "NT_STATUS_OK"]_vars

\* done on "not implemented" although the return authenticator did not verify
C37_Witness ==
    /\ pc = "done"
    /\ reply.call = "NT_STATUS_OK"
    /\ reply.result = "NT_STATUS_NOT_IMPLEMENTED"
    /\ ~reply.verified
    /\ LastSent = Request("LogonGetCapabilities", "primary", 1)
    /\ "SUPPORTS_AES" \notin creds_state.negotiate_flags

(* ---- C38 ---- *)

\* C38: a level 1 answer that succeeds and matches the negotiated flags still
\* ends the handshake with DOWNGRADE_DETECTED when AES was requested and not
\* negotiated; the level 2 query is sent only if AES was not requested or was
\* negotiated; and a handshake that went through a retry never gets past a
\* successful level 1 answer.
C38_RequestedAesMustBeNegotiated ==
    [][/\ (/\ ReplyStep("LogonGetCapabilities1")
           /\ CapsAnswer(reply')
           /\ capabilities' = creds_state.negotiate_flags
           /\ "SUPPORTS_AES" \in requested_negotiate_flags
           /\ "SUPPORTS_AES" \notin creds_state.negotiate_flags)
          => /\ pc' = "failed"
             /\ status' = "NT_STATUS_DOWNGRADE_DETECTED"
             /\ sent' = sent
       /\ (pc # "LogonGetCapabilities2" /\ pc' = "LogonGetCapabilities2")
          => \/ "SUPPORTS_AES" \notin requested_negotiate_flags
             \/ "SUPPORTS_AES" \in creds_state'.negotiate_flags
       /\ (/\ ReplyStep("LogonGetCapabilities1")
           /\ CapsAnswer(reply')
           /\ Retries = 1)
          => /\ pc' = "failed"
             /\ status' = "NT_STATUS_DOWNGRADE_DETECTED"]_vars

\* after a retry that dropped AES the peer confirmed exactly what was negotiated
C38_Witness ==
    /\ pc = "failed"
    /\ status = "NT_STATUS_DOWNGRADE_DETECTED"
    /\ Retries = 1
    /\ ChannelClass = "automatic"
    /\ CapsAnswer(reply)
    /\ LastSent = Request("LogonGetCapabilities", "primary", 1)
    /\ capabilities = creds_state.negotiate_flags

(* ---- C39 ---- *)

C40_OtherResultSurfacesAsIs ==
    [][(Auth2ReplyStep /\ a_result' \notin OkOrDenied)
       => /\ pc' = "failed"
          /\ status' = a_result'
          /\ status' # "NT_STATUS_DOWNGRADE_DETECTED"
          /\ sent' = sent]_vars

\* the peer knows no such account and returned no flags at all
C40_Witness ==
    /\ pc = "failed"
    /\ status = "NT_STATUS_NO_TRUST_SAM_ACCOUNT"
    /\ a_result = "NT_STATUS_NO_TRUST_SAM_ACCOUNT"
    /\ auth2_replies = 1
    /\ ~RequiredCovered(required_negotiate_flags, remote_negotiate_flags,
                        local_negotiate_flags)

====
